---- MODULE Spec2Model ----
(***************************************************************************)
(* The directory-listing middleware of filemanager.go: FileManager.ServeHTTP*)
(* and FileManager.ServeListing as a state machine over one request, with   *)
(* the filesystem, the Next handler and the sort-preference store as the    *)
(* environment.                                                             *)
(*                                                                          *)
(* Strings whose characters the code inspects (URL paths, header values,    *)
(* file names, the limit parameter) are sequences of one-character strings. *)
(* Strings the code only compares for equality (the method, the sort and    *)
(* order parameters) are TLA+ strings.                                      *)
(***************************************************************************)
EXTENDS Integers, Sequences, FiniteSets, TLC

\* ------------------------------------------------------------------ bounds

\* The longest directory the filesystem returns from Readdir.
MaxFiles == 2

\* The largest numeric value of the limit query parameter.
MaxLimit == 2

\* ------------------------------------------------------- string functions

Nil == "nil"

\* strings.HasPrefix
HasPrefix(s, prefix) ==
    /\ Len(prefix) <= Len(s)
    /\ SubSeq(s, 1, Len(prefix)) = prefix

\* strings.HasSuffix
HasSuffix(s, suffix) ==
    /\ Len(suffix) <= Len(s)
    /\ SubSeq(s, Len(s) - Len(suffix) + 1, Len(s)) = suffix

\* strings.TrimSuffix
TrimSuffix(s, suffix) ==
    IF HasSuffix(s, suffix) THEN SubSeq(s, 1, Len(s) - Len(suffix)) ELSE s

\* strings.Contains
Contains(s, substr) ==
    \E i \in 0..(Len(s) - Len(substr)) : SubSeq(s, i + 1, i + Len(substr)) = substr

\* The upper-case letters of the model's alphabet and their lower-case forms.
LowerOf ==
    [c \in {"A", "B", "I", "J", "N", "O", "S"} |->
        CASE c = "A" -> "a" [] c = "B" -> "b" [] c = "I" -> "i" [] c = "J" -> "j"
          [] c = "N" -> "n" [] c = "O" -> "o" [] c = "S" -> "s"]

\* strings.ToLower
ToLower(s) == [i \in 1..Len(s) |-> IF s[i] \in DOMAIN LowerOf THEN LowerOf[s[i]] ELSE s[i]]

\* strings.Join
RECURSIVE Join(_, _)
Join(elems, sep) ==
    IF Len(elems) = 0 THEN <<>>
    ELSE IF Len(elems) = 1 THEN elems[1]
    ELSE elems[1] \o sep \o Join(Tail(elems), sep)

\* The index of the last "/" of s, 0 when there is none (strings.LastIndex + 1).
LastSlash(s) ==
    IF \E i \in 1..Len(s) : s[i] = "/"
    THEN CHOOSE i \in 1..Len(s) : s[i] = "/" /\ \A j \in (i + 1)..Len(s) : s[j] # "/"
    ELSE 0

\* s without its trailing slashes.
RECURSIVE StripSlashes(_)
StripSlashes(s) ==
    IF Len(s) > 0 /\ s[Len(s)] = "/" THEN StripSlashes(SubSeq(s, 1, Len(s) - 1)) ELSE s

\* s with every run of slashes collapsed to one.
RECURSIVE Collapse(_)
Collapse(s) ==
    IF Len(s) < 2 THEN s
    ELSE IF s[1] = "/" /\ s[2] = "/" THEN Collapse(Tail(s))
    ELSE <<s[1]>> \o Collapse(Tail(s))

\* path.Clean, for paths without "." and ".." elements (the model's paths have
\* none): slashes collapsed, no trailing slash except for the root, "" -> ".".
PathClean(p) ==
    LET c == Collapse(p) IN
    IF c = <<>> THEN <<".">>
    ELSE IF StripSlashes(c) = <<>> THEN <<"/">>
    ELSE StripSlashes(c)

\* path.Dir: all but the last element of the path, cleaned.
PathDir(p) == PathClean(SubSeq(p, 1, LastSlash(p)))

\* path.Base: the last element of the path.
PathBase(p) ==
    IF p = <<>> THEN <<".">>
    ELSE LET s == StripSlashes(p) IN
         IF s = <<>> THEN <<"/">>
         ELSE SubSeq(s, LastSlash(s) + 1, Len(s))

\* ------------------------------------------------------------ configuration

\* Config values: the scope's path prefix, its filesystem root, its user
\* variables and its template.
ScopeA == [PathScope |-> <<"/", "a">>, Root |-> "rootA", Variables |-> "varsA", Template |-> "tplA"]

ScopeRoot == [PathScope |-> <<"/">>, Root |-> "rootAll", Variables |-> "varsAll", Template |-> "tplAll"]

ScopeASlash == [PathScope |-> <<"/", "a", "/">>, Root |-> "rootA2", Variables |-> "varsA2", Template |-> "tplA2"]

\* FileManager.Configs, as the host may have loaded it.
ConfigLists ==
    { <<ScopeA, ScopeRoot>>, <<ScopeA>>, <<ScopeASlash, ScopeA>>, <<ScopeASlash>> }

\* staticfiles.IndexPages of the host server.
IndexPages ==
    { <<"i", "n", "d", "e", "x", ".", "h", "t", "m", "l">>,
      <<"i", "n", "d", "e", "x", ".", "h", "t", "m">>,
      <<"i", "n", "d", "e", "x", ".", "t", "x", "t">>,
      <<"d", "e", "f", "a", "u", "l", "t", ".", "h", "t", "m", "l">>,
      <<"d", "e", "f", "a", "u", "l", "t", ".", "h", "t", "m">>,
      <<"d", "e", "f", "a", "u", "l", "t", ".", "t", "x", "t">> }

\* ------------------------------------------------------------- the request

Methods == {"GET", "HEAD", "PROPFIND", "OPTIONS", "POST"}

\* r.URL.Path
Paths == { <<"/", "a">>, <<"/", "a", "/">>, <<"/", "b", "/">>, <<"/", "a", "/", "b", "/">> }

\* The sort and order query parameters; "" is a missing parameter.
SortParams == {"", "name", "size", "time", "bogus"}

OrderParams == {"", "asc", "desc", "bogus"}

DigitChars == <<"0", "1", "2", "3", "4", "5", "6", "7", "8", "9">>

\* strconv.Itoa for n >= 0
RECURSIVE Itoa(_)
Itoa(n) == IF n < 10 THEN <<DigitChars[n + 1]>> ELSE Itoa(n \div 10) \o <<DigitChars[(n % 10) + 1]>>

\* The limit query parameter as sent: missing, a number, a negative number,
\* not a number.
LimitParams ==
    { <<>>, <<"x">>, <<"-", "1">> } \cup { Itoa(n) : n \in 0..MaxLimit }

Requests == [Method : Methods, Path : Paths, Sort : SortParams, Order : OrderParams, Limit : LimitParams]

\* The values of the request's Accept header (r.Header["Accept"]).
AcceptHeaders ==
    { <<>>,
      << <<"A", "p", "p", "l", "i", "c", "a", "t", "i", "o", "n", "/", "J", "S", "O", "N">> >>,
      << <<"t", "e", "x", "t", "/", "h", "t", "m", "l">>,
         <<"a", "p", "p", "l", "i", "c", "a", "t", "i", "o", "n", "/", "j", "s", "o", "n">> >>,
      << <<"a", "p", "p", "l", "i", "c", "a", "t", "i", "o", "n", "/", "j", "s">>, <<"o", "n">> >> }

\* ---------------------------------------------------------- the filesystem

\* The error classes the handler tells apart (os.IsPermission, os.IsExist,
\* neither), and no error.
ErrPermission == "permission"

ErrExist == "exist"

ErrOther == "other"

Errors == {ErrPermission, ErrExist, ErrOther}

\* os.FileInfo values of directory entries.
DirEntries ==
    { [Name |-> <<"i", "n", "d", "e", "x", ".", "h", "t", "m", "l">>, IsDir |-> FALSE, Size |-> 3,
       ModTime |-> [sec |-> 1, loc |-> "Local"], Mode |-> "-rw-r--r--"],
      [Name |-> <<"i", "n", "d", "e", "x", ".", "h", "t", "m">>, IsDir |-> FALSE, Size |-> 1,
       ModTime |-> [sec |-> 2, loc |-> "Local"], Mode |-> "-rw-r--r--"],
      [Name |-> <<"B">>, IsDir |-> TRUE, Size |-> 4,
       ModTime |-> [sec |-> 2, loc |-> "UTC"], Mode |-> "drwxr-xr-x"],
      [Name |-> <<"a", " ", "b">>, IsDir |-> FALSE, Size |-> 1,
       ModTime |-> [sec |-> 3, loc |-> "Local"], Mode |-> "-rw-------"] }

\* What Readdir(-1) may return: up to MaxFiles entries with distinct names, in
\* any order.
Directories ==
    { fs \in UNION { [1..n -> DirEntries] : n \in 0..MaxFiles } :
        \A i, j \in DOMAIN fs : i # j => fs[i].Name # fs[j].Name }

\* What the Next handler may return: a status and an error.
NextResults == { [status |-> 200, err |-> Nil], [status |-> 404, err |-> "next: not found"] }

\* ------------------------------------------------------------ scope routing

\* httpserver.Path(p).Matches(scope): a prefix match (the model's paths are
\* lower case, so the server's case folding changes nothing).
Matches(p, scope) == HasPrefix(p, scope)

\* matchConfig without the goto out of the loop: the last matching Config wins.
matchConfig_lastWins(configs, p) ==
    IF \E i \in 1..Len(configs) : Matches(p, configs[i].PathScope)
    THEN CHOOSE i \in 1..Len(configs) :
            /\ Matches(p, configs[i].PathScope)
            /\ \A j \in (i + 1)..Len(configs) : ~Matches(p, configs[j].PathScope)
    ELSE 0

\* The loop over f.Configs in ServeHTTP: the index of the first Config whose
\* PathScope matches, 0 when none does (bc stays nil).
matchConfig(configs, p) ==
    IF \E i \in 1..Len(configs) : Matches(p, configs[i].PathScope)
    THEN CHOOSE i \in 1..Len(configs) :
            /\ Matches(p, configs[i].PathScope)
            /\ \A j \in 1..(i - 1) : ~Matches(p, configs[j].PathScope)
    ELSE 0

\* What ServeHTTP does when bc.Root.Open fails with err.
openFailure(err) ==
    CASE err = ErrPermission -> [next |-> FALSE, status |-> 403]
      [] err = ErrExist -> [next |-> FALSE, status |-> 404]
      [] OTHER -> [next |-> TRUE, status |-> 0]

\* statFailure with the status of the Open phase for os.IsExist.
statFailure_notFound(err) ==
    CASE err = ErrPermission -> [next |-> FALSE, status |-> 403]
      [] err = ErrExist -> [next |-> FALSE, status |-> 404]
      [] OTHER -> [next |-> TRUE, status |-> 0]

\* What ServeHTTP does when requestedFilepath.Stat fails with err.
statFailure(err) ==
    CASE err = ErrPermission -> [next |-> FALSE, status |-> 403]
      [] err = ErrExist -> [next |-> FALSE, status |-> 410]
      [] OTHER -> [next |-> TRUE, status |-> 0]

\* readdirFailure with every error but a permission error answered 410.
readdirFailure_goneByDefault(err) ==
    CASE err = ErrPermission -> 403
      [] OTHER -> 410

\* What ServeListing does when Readdir fails with err.
readdirFailure(err) ==
    CASE err = ErrPermission -> 403
      [] err = ErrExist -> 410
      [] OTHER -> 500

\* methodAction with OPTIONS left to the default case.
methodAction_optionsDeferred(method) ==
    CASE method \in {"GET", "HEAD"} -> "serve"
      [] method \in {"PROPFIND"} -> "notImplemented"
      [] OTHER -> "next"

\* The switch on r.Method: "serve", "notImplemented" or "next".
methodAction(method) ==
    CASE method \in {"GET", "HEAD"} -> "serve"
      [] method \in {"PROPFIND", "OPTIONS"} -> "notImplemented"
      [] OTHER -> "next"

\* needsRedirect with the trailing-slash test left out.
needsRedirect_never(p) == FALSE

\* !strings.HasSuffix(r.URL.Path, "/")
needsRedirect(p) == ~HasSuffix(p, <<"/">>)

\* ----------------------------------------------------- listing construction

\* url.URL{Path: p}.String() on the model's alphabet: a space is escaped,
\* letters, '.', ':' and '/' are not.
RECURSIVE EscapePath(_)
EscapePath(p) ==
    IF p = <<>> THEN <<>>
    ELSE (IF Head(p) = " " THEN <<"%", "2", "0">> ELSE <<Head(p)>>) \o EscapePath(Tail(p))

\* time.Time.UTC(): the same instant in the UTC location.
UTC(t) == [t EXCEPT !.loc = "UTC"]

\* The FileInfo directoryListing appends for entry f.
fileInfoOf(f) ==
    [IsDir |-> f.IsDir,
     Name |-> f.Name,
     Size |-> f.Size,
     URL |-> EscapePath(<<".", "/">> \o f.Name \o (IF f.IsDir THEN <<"/">> ELSE <<>>)),
     ModTime |-> UTC(f.ModTime),
     Mode |-> f.Mode]

\* visitEntry with fileCount++ outside the else branch.
visitEntry_countsAll(acc, f) ==
    [fileinfos |-> Append(acc.fileinfos, fileInfoOf(f)),
     dirCount |-> IF f.IsDir THEN acc.dirCount + 1 ELSE acc.dirCount,
     fileCount |-> acc.fileCount + 1,
     hasIndexFile |-> acc.hasIndexFile \/ (\E indexName \in IndexPages : f.Name = indexName)]

\* One iteration of directoryListing's loop over files.
visitEntry(acc, f) ==
    [fileinfos |-> Append(acc.fileinfos, fileInfoOf(f)),
     dirCount |-> IF f.IsDir THEN acc.dirCount + 1 ELSE acc.dirCount,
     fileCount |-> IF f.IsDir THEN acc.fileCount ELSE acc.fileCount + 1,
     hasIndexFile |-> acc.hasIndexFile \/ (\E indexName \in IndexPages : f.Name = indexName)]

RECURSIVE visitEntries(_, _)
visitEntries(acc, files) ==
    IF files = <<>> THEN acc ELSE visitEntries(visitEntry(acc, Head(files)), Tail(files))

\* directoryListing: the Listing and whether an index file is among the entries.
directoryListing(files, canGoUp, urlPath) ==
    LET acc == visitEntries([fileinfos |-> <<>>, dirCount |-> 0, fileCount |-> 0,
                             hasIndexFile |-> FALSE], files)
    IN [listing |-> [Name |-> PathBase(urlPath),
                     Path |-> urlPath,
                     CanGoUp |-> canGoUp,
                     Items |-> acc.fileinfos,
                     NumDirs |-> acc.dirCount,
                     NumFiles |-> acc.fileCount,
                     Sort |-> "",
                     Order |-> "",
                     ItemsLimitedTo |-> 0,
                     User |-> Nil,
                     Context |-> Nil],
        hasIndex |-> acc.hasIndexFile]

\* canGoUpFrom with the directory of the path as requested, its trailing
\* slash kept.
canGoUpFrom_slashKept(configs, urlPath) ==
    \E i \in 1..Len(configs) : HasPrefix(PathDir(urlPath), configs[i].PathScope)

\* loadDirectoryContents: whether the user can browse up another folder.
canGoUpFrom(configs, urlPath) ==
    LET curPathDir == PathDir(TrimSuffix(urlPath, <<"/">>))
    IN \E i \in 1..Len(configs) : HasPrefix(curPathDir, configs[i].PathScope)

\* notBrowsable without the test of f.IgnoreIndexes.
notBrowsable_indexOnly(containsIndex, ignoreIndexes) == containsIndex

\* containsIndex && !f.IgnoreIndexes: the directory isn't browsable.
notBrowsable(containsIndex, ignoreIndexes) == containsIndex /\ ~ignoreIndexes

\* limitItems with limit < len(listing.Items) for limit <= len(listing.Items).
limitItems_strict(listing, limit) ==
    IF limit > 0 /\ limit < Len(listing.Items)
    THEN [listing EXCEPT !.Items = SubSeq(listing.Items, 1, limit), !.ItemsLimitedTo = limit]
    ELSE listing

\* The limit step of ServeListing.
limitItems(listing, limit) ==
    IF limit > 0 /\ limit <= Len(listing.Items)
    THEN [listing EXCEPT !.Items = SubSeq(listing.Items, 1, limit), !.ItemsLimitedTo = limit]
    ELSE listing

\* ------------------------------------------------- sort, order and limit

\* strconv.Atoi: an optional sign and decimal digits.
IsDigit(c) == \E n \in 1..10 : DigitChars[n] = c

DigitValue(c) == (CHOOSE n \in 1..10 : DigitChars[n] = c) - 1

RECURSIVE DigitsValue(_)
DigitsValue(s) ==
    IF s = <<>> THEN 0
    ELSE DigitsValue(SubSeq(s, 1, Len(s) - 1)) * 10 + DigitValue(s[Len(s)])

Atoi(s) ==
    LET signed == Len(s) > 0 /\ s[1] \in {"-", "+"}
        digits == IF signed THEN Tail(s) ELSE s
    IN IF digits = <<>> \/ \E i \in 1..Len(digits) : ~IsDigit(digits[i])
       THEN [ok |-> FALSE, val |-> 0]
       ELSE [ok |-> TRUE,
             val |-> IF signed /\ s[1] = "-" THEN 0 - DigitsValue(digits) ELSE DigitsValue(digits)]

\* The preference the store may hold for a scope: "" is nothing recorded.
NoPref == [sort |-> "", order |-> ""]

StoredPrefs == { NoPref, [sort |-> "size", order |-> "desc"] }

\* handleSortOrder: the sort, order and limit of the request, validated; a
\* missing sort or order falls back to the stored preference of the scope,
\* then to name/asc; a missing limit is no limit. Supplied values become the
\* scope's stored preference.
handleSortOrder(req, scope, stored) ==
    LET lim == IF req.Limit = <<>> THEN [ok |-> TRUE, val |-> 0] ELSE Atoi(req.Limit)
        bad == \/ req.Sort \notin {"", "name", "size", "time"}
               \/ req.Order \notin {"", "asc", "desc"}
               \/ ~lim.ok
               \/ lim.val < 0
        sort == IF req.Sort # "" THEN req.Sort
                ELSE IF stored.sort # "" THEN stored.sort ELSE "name"
        order == IF req.Order # "" THEN req.Order
                 ELSE IF stored.order # "" THEN stored.order ELSE "asc"
    IN IF bad
       THEN [sort |-> "", order |-> "", limit |-> 0, err |-> "bad query", record |-> <<>>]
       ELSE [sort |-> sort, order |-> order, limit |-> lim.val, err |-> Nil,
             record |-> IF req.Sort # "" \/ req.Order # ""
                        THEN << [scope |-> scope, sort |-> sort, order |-> order] >>
                        ELSE <<>>]

\* The byte values of the characters of file names.
CharCode ==
    [c \in {" ", ".", "B", "a", "b", "d", "e", "h", "i", "l", "m", "n", "t", "x"} |->
        CASE c = " " -> 32 [] c = "." -> 46 [] c = "B" -> 66 [] c = "a" -> 97
          [] c = "b" -> 98 [] c = "d" -> 100 [] c = "e" -> 101 [] c = "h" -> 104
          [] c = "i" -> 105 [] c = "l" -> 108 [] c = "m" -> 109 [] c = "n" -> 110
          [] c = "t" -> 116 [] c = "x" -> 120]

\* a < b for strings: byte-wise lexicographic.
RECURSIVE StringLess(_, _)
StringLess(a, b) ==
    IF b = <<>> THEN FALSE
    ELSE IF a = <<>> THEN TRUE
    ELSE IF CharCode[Head(a)] # CharCode[Head(b)] THEN CharCode[Head(a)] < CharCode[Head(b)]
    ELSE StringLess(Tail(a), Tail(b))

\* The comparison of two items on the sort key alone.
keyLess(a, b, sort) ==
    CASE sort = "name" -> StringLess(ToLower(a.Name), ToLower(b.Name))
      [] sort = "size" -> a.Size < b.Size
      [] sort = "time" -> a.ModTime.sec < b.ModTime.sec
      [] OTHER -> FALSE

\* order=desc reverses the comparator.
itemLess(a, b, sort, order) ==
    IF order = "desc" THEN keyLess(b, a, sort) ELSE keyLess(a, b, sort)

\* insertItem with x inserted before the items that are equal to it.
insertItem_beforeEqual(sorted, x, sort, order) ==
    LET less == { i \in 1..Len(sorted) : itemLess(sorted[i], x, sort, order) }
        k == IF less = {} THEN 0 ELSE CHOOSE i \in less : \A j \in less : j <= i
    IN SubSeq(sorted, 1, k) \o <<x>> \o SubSeq(sorted, k + 1, Len(sorted))

\* x inserted into the sorted sequence after every item that is not greater.
insertItem(sorted, x, sort, order) ==
    LET notGreater == { i \in 1..Len(sorted) : ~itemLess(x, sorted[i], sort, order) }
        k == IF notGreater = {} THEN 0 ELSE CHOOSE i \in notGreater : \A j \in notGreater : j <= i
    IN SubSeq(sorted, 1, k) \o <<x>> \o SubSeq(sorted, k + 1, Len(sorted))

RECURSIVE sortItems(_, _, _, _)
sortItems(sorted, items, sort, order) ==
    IF items = <<>> THEN sorted
    ELSE sortItems(insertItem(sorted, Head(items), sort, order), Tail(items), sort, order)

\* Listing.applySort: a stable sort of Items on l.Sort in l.Order.
applySort(listing) ==
    [listing EXCEPT !.Items = sortItems(<<>>, listing.Items, listing.Sort, listing.Order)]

\* ------------------------------------------------------------ presentation

ApplicationJSON == <<"a", "p", "p", "l", "i", "c", "a", "t", "i", "o", "n", "/", "j", "s", "o", "n">>

\* wantsJSON without strings.ToLower.
wantsJSON_caseSensitive(accept) == Contains(Join(accept, <<",">>), ApplicationJSON)

\* strings.Contains(strings.ToLower(strings.Join(r.Header["Accept"], ",")), "application/json")
wantsJSON(accept) == Contains(ToLower(Join(accept, <<",">>)), ApplicationJSON)

\* json.Marshal of one FileInfo: an object of its six fields.
jsonObject(fi) ==
    [IsDir |-> fi.IsDir, Name |-> fi.Name, Size |-> fi.Size, URL |-> fi.URL,
     ModTime |-> [sec |-> fi.ModTime.sec, zone |-> "Z"], Mode |-> fi.Mode]

\* json.Marshal(listing.Items): null for the nil slice (no append has
\* happened), else an array with one object per item.
jsonMarshal(items) ==
    [null |-> items = <<>>, elems |-> [i \in 1..Len(items) |-> jsonObject(items[i])]]

\* formatAsJSON: the buffer holds the marshalled Items.
formatAsJSON(listing, config) == [kind |-> "json", json |-> jsonMarshal(listing.Items)]

\* formatAsHTML: the buffer holds bc.Template executed on the listing.
formatAsHTML(listing, config) == [kind |-> "html", template |-> config.Template, data |-> listing]

\* ------------------------------------------------------------------- state

VARIABLES
    f,            \* the FileManager: Configs and IgnoreIndexes
    r,            \* the request: Method, Path and the query parameters
    pc,           \* where the handler is
    bc,           \* the index in f.Configs of the matched Config, 0 for nil
    file,         \* requestedFilepath: "none", "open" or "closed"
    info,         \* what Stat reported: "nil", "dir" or "file"
    calls,        \* the calls made so far on the collaborators
    files,        \* what Readdir returned
    listing,      \* the Listing of ServeListing
    containsIndex, \* whether an index file is among the entries
    limit,        \* the limit handleSortOrder returned
    fsErr,        \* the filesystem call that failed, and its error
    acceptHeader, \* r.Header["Accept"], once read
    w,            \* the response written so far
    nextResult,   \* what f.Next.ServeHTTP returned
    prefs,        \* what the request recorded in the preference store
    ret,          \* what ServeHTTP returned
    breadcrumbs   \* what Listing.BreadcrumbMap returned

vars == <<f, r, pc, bc, file, info, calls, files, listing, containsIndex, limit, fsErr, acceptHeader, w, nextResult, prefs, ret, breadcrumbs>>

NoListing == [nil |-> TRUE]

NoBuf == [kind |-> "nil"]

NoResult == [status |-> 0 - 1, err |-> Nil]

\* httpserver.Context{}: the zero value.
NoContext == [Root |-> Nil, URL |-> <<>>]

NoResponse == [Code |-> 0, Location |-> <<>>, ContentType |-> "", Body |-> NoBuf]

\* open: the roots opened; format: the formatter called, "" for none.
NoCalls == [open |-> <<>>, stat |-> 0, readdir |-> 0, close |-> 0, next |-> 0, params |-> 0, format |-> ""]

NoErr == [op |-> "", err |-> Nil]

\* BreadcrumbMap not called yet.
NoBreadcrumbs == [nil |-> TRUE]

Init ==
    /\ f \in [Configs : ConfigLists, IgnoreIndexes : BOOLEAN]
    /\ r \in Requests
    /\ pc = "ServeHTTP"
    /\ bc = 0
    /\ file = "none"
    /\ info = "nil"
    /\ calls = NoCalls
    /\ files = <<>>
    /\ listing = NoListing
    /\ containsIndex = FALSE
    /\ limit = 0
    /\ fsErr = NoErr
    /\ acceptHeader = <<>>
    /\ w = NoResponse
    /\ nextResult = NoResult
    /\ prefs = <<>>
    /\ ret = NoResult
    /\ breadcrumbs = NoBreadcrumbs

\* closeDeferred without the defer statement: the file is left as it is.
closeDeferred_never(state) == state

\* defer requestedFilepath.Close(): runs when ServeHTTP returns after Open
\* succeeded.
closeDeferred(state) == IF state = "open" THEN "closed" ELSE state

\* return status, err from ServeHTTP (through ServeListing or not).
Return(status, err, callsNow) ==
    /\ ret' = [status |-> status, err |-> err]
    /\ file' = closeDeferred(file)
    /\ calls' = [callsNow EXCEPT !.close = IF file = "open" THEN @ + 1 ELSE @]
    /\ pc' = "Done"

\* return f.Next.ServeHTTP(w, r): the Next handler starts running.
CallNext(callsNow) ==
    /\ calls' = [callsNow EXCEPT !.next = @ + 1]
    /\ pc' = "InNext"
    /\ UNCHANGED <<file, ret>>

\* ServeHTTP, lines 178-187: find the Config whose scope matches the path.
MatchScope ==
    /\ pc = "ServeHTTP"
    /\ bc' = matchConfig(f.Configs, r.Path)
    /\ IF bc' = 0
       THEN CallNext(calls)
       ELSE pc' = "Open" /\ UNCHANGED <<calls, file, ret>>
    /\ UNCHANGED <<breadcrumbs, f, r, fsErr, info, files, listing, containsIndex, limit, acceptHeader, w, nextResult, prefs>>

\* ServeHTTP, lines 189-201: bc.Root.Open(r.URL.Path).
Open ==
    /\ pc = "Open"
    /\ \E err \in Errors \cup {Nil} :
         LET opened == [calls EXCEPT !.open = Append(@, f.Configs[bc].Root)] IN
         IF err = Nil
         THEN /\ file' = "open"
              /\ calls' = opened
              /\ pc' = "Stat"
              /\ UNCHANGED <<ret, fsErr>>
         ELSE /\ fsErr' = [op |-> "open", err |-> err]
              /\ IF openFailure(err).next
                 THEN CallNext(opened)
                 ELSE Return(openFailure(err).status, err, opened)
    /\ UNCHANGED <<breadcrumbs, f, r, bc, info, files, listing, containsIndex, limit, acceptHeader, w, nextResult, prefs>>

\* notDirectory with the test left out.
notDirectory_never(fileInfo) == FALSE

\* !info.IsDir(): the target is not a directory.
notDirectory(fileInfo) == fileInfo # "dir"

\* ServeHTTP, lines 203-216: requestedFilepath.Stat() and the directory test.
Stat ==
    /\ pc = "Stat"
    /\ \E err \in Errors \cup {Nil}, statInfo \in {"dir", "file"} :
         LET statted == [calls EXCEPT !.stat = @ + 1] IN
         IF err = Nil
         THEN /\ info' = statInfo
              /\ UNCHANGED fsErr
              /\ IF notDirectory(statInfo)
                 THEN CallNext(statted)
                 ELSE pc' = "Method" /\ calls' = statted /\ UNCHANGED <<file, ret>>
         ELSE /\ fsErr' = [op |-> "stat", err |-> err]
              /\ UNCHANGED info
              /\ IF statFailure(err).next
                 THEN CallNext(statted)
                 ELSE Return(statFailure(err).status, err, statted)
    /\ UNCHANGED <<breadcrumbs, f, r, bc, files, listing, containsIndex, limit, acceptHeader, w, nextResult, prefs>>

\* ServeHTTP, lines 218-226: the switch on r.Method.
Method ==
    /\ pc = "Method"
    /\ CASE methodAction(r.Method) = "serve" ->
              pc' = "Slash" /\ UNCHANGED <<file, calls, ret>>
         [] methodAction(r.Method) = "notImplemented" ->
              Return(501, Nil, calls)
         [] OTHER ->
              CallNext(calls)
    /\ UNCHANGED <<breadcrumbs, f, r, fsErr, bc, info, files, listing, containsIndex, limit, acceptHeader, w, nextResult, prefs>>

\* http.Redirect(w, r, r.URL.Path+"/", http.StatusTemporaryRedirect)
httpRedirect(resp, location) == [resp EXCEPT !.Code = 307, !.Location = location]

\* ServeHTTP, lines 228-235: the trailing-slash redirect, else ServeListing.
Slash ==
    /\ pc = "Slash"
    /\ IF needsRedirect(r.Path)
       THEN /\ w' = httpRedirect(w, r.Path \o <<"/">>)
            /\ Return(0, Nil, calls)
       ELSE /\ pc' = "ServeListing"
            /\ UNCHANGED <<w, file, calls, ret>>
    /\ UNCHANGED <<breadcrumbs, f, r, fsErr, bc, info, files, listing, containsIndex, limit, acceptHeader, nextResult, prefs>>

\* ServeListing, lines 262-272, with loadDirectoryContents: Readdir(-1), the
\* up-navigation flag and directoryListing. With an error Readdir may still
\* have returned the entries read until then; the handler drops them.
LoadDirectoryContents ==
    /\ pc = "ServeListing"
    /\ \E err \in Errors \cup {Nil}, read \in Directories :
         LET called == [calls EXCEPT !.readdir = @ + 1]
             made == directoryListing(read, canGoUpFrom(f.Configs, r.Path), r.Path)
         IN /\ files' = read
            /\ IF err # Nil
               THEN /\ fsErr' = [op |-> "readdir", err |-> err]
                    /\ Return(readdirFailure(err), err, called)
                    /\ UNCHANGED <<listing, containsIndex>>
               ELSE /\ listing' = [made.listing EXCEPT !.Context = NoContext]
                    /\ containsIndex' = made.hasIndex
                    /\ pc' = "IndexCheck"
                    /\ calls' = called
                    /\ UNCHANGED <<file, ret, fsErr>>
    /\ UNCHANGED <<breadcrumbs, f, r, bc, info, limit, acceptHeader, w, nextResult, prefs>>

\* ServeListing, lines 273-281: an index file defers unless indexes are
\* ignored; else the listing gets its context and the scope's variables.
IndexCheck ==
    /\ pc = "IndexCheck"
    /\ IF notBrowsable(containsIndex, f.IgnoreIndexes)
       THEN /\ CallNext(calls)
            /\ UNCHANGED listing
       ELSE /\ listing' = [listing EXCEPT
                              !.Context = [Root |-> f.Configs[bc].Root, URL |-> r.Path],
                              !.User = f.Configs[bc].Variables]
            /\ pc' = "SortOrder"
            /\ UNCHANGED <<file, calls, ret>>
    /\ UNCHANGED <<breadcrumbs, f, r, fsErr, bc, info, files, containsIndex, limit, acceptHeader, w, nextResult, prefs>>

\* rejectsQuery with the error of handleSortOrder ignored.
rejectsQuery_never(err) == FALSE

\* err != nil after handleSortOrder: the request is rejected.
rejectsQuery(err) == err # Nil

\* ServeListing, lines 283-290: handleSortOrder and applySort.
SortOrder ==
    /\ pc = "SortOrder"
    /\ \E stored \in StoredPrefs :
         LET q == handleSortOrder(r, f.Configs[bc].PathScope, stored)
             asked == [calls EXCEPT !.params = @ + 1]
         IN IF rejectsQuery(q.err)
            THEN /\ Return(400, q.err, asked)
                 /\ UNCHANGED <<listing, limit, prefs>>
            ELSE /\ listing' = applySort([listing EXCEPT !.Sort = q.sort, !.Order = q.order])
                 /\ limit' = q.limit
                 /\ prefs' = q.record
                 /\ calls' = asked
                 /\ pc' = "Limit"
                 /\ UNCHANGED <<file, ret>>
    /\ UNCHANGED <<breadcrumbs, f, r, fsErr, bc, info, files, containsIndex, acceptHeader, w, nextResult>>

\* ServeListing, lines 292-295: the limit.
Limit ==
    /\ pc = "Limit"
    /\ listing' = limitItems(listing, limit)
    /\ pc' = "Format"
    /\ UNCHANGED <<breadcrumbs, f, r, fsErr, bc, file, info, calls, files, containsIndex, limit, acceptHeader,
                   w, nextResult, prefs, ret>>

\* The Content-Type ServeListing sets for a buffer.
contentTypeOf(buf) ==
    IF buf.kind = "json" THEN "application/json; charset=utf-8" ELSE "text/html; charset=utf-8"

\* The buffer ServeListing formats for the Accept header values.
formatFor(accept, l, config) ==
    IF wantsJSON(accept) THEN formatAsJSON(l, config) ELSE formatAsHTML(l, config)

\* writeResponse with the Content-Type header set before the error test.
writeResponse_headerFirst(resp, buf, failed) ==
    [resp EXCEPT !.ContentType = contentTypeOf(buf),
                 !.Body = IF failed THEN @ ELSE buf]

\* What ServeListing writes to w: nothing when formatting failed (the error
\* return comes first), else the Content-Type header and the whole buffer.
writeResponse(resp, buf, failed) ==
    IF failed
    THEN resp
    ELSE [resp EXCEPT !.ContentType = contentTypeOf(buf), !.Body = buf]

\* ServeListing, lines 297-316: content negotiation, formatting, the
\* Content-Type header and the body. json.Marshal fails on an item it cannot
\* encode, so never on no items; the template may fail on any listing.
Render ==
    /\ pc = "Format"
    /\ \E accept \in AcceptHeaders, failed \in BOOLEAN :
         LET buf == formatFor(accept, listing, f.Configs[bc])
             formatted == [calls EXCEPT !.format = buf.kind]
         IN /\ failed => (buf.kind = "html" \/ listing.Items # <<>>)
            /\ acceptHeader' = accept
            /\ w' = writeResponse(w, buf, failed)
            /\ IF failed
               THEN Return(500, "render failed", formatted)
               ELSE Return(200, Nil, formatted)
    /\ UNCHANGED <<breadcrumbs, f, r, fsErr, bc, info, files, listing, containsIndex, limit, nextResult, prefs>>

\* deferredResult with the error of the Next handler dropped.
deferredResult_statusOnly(result) == [status |-> result.status, err |-> Nil]

\* What ServeHTTP returns for a deferred request: what Next returned.
deferredResult(result) == result

\* f.Next.ServeHTTP returns, and ServeHTTP returns its result.
NextReturns ==
    /\ pc = "InNext"
    /\ \E result \in NextResults :
         /\ nextResult' = result
         /\ Return(deferredResult(result).status, deferredResult(result).err, calls)
    /\ UNCHANGED <<breadcrumbs, f, r, fsErr, bc, info, files, listing, containsIndex, limit, acceptHeader, w, prefs>>

Next ==
    \/ MatchScope
    \/ Open
    \/ Stat
    \/ Method
    \/ Slash
    \/ LoadDirectoryContents
    \/ IndexCheck
    \/ SortOrder
    \/ Limit
    \/ Render
    \/ NextReturns

Spec == Init /\ [][Next]_vars

\* ------------------------------------------------------------- properties

\* The request has been deferred: f.Next.ServeHTTP was called.
Deferred == calls.next > 0

\* ServeHTTP returned what the Next handler returned.
ReturnedNextResult == nextResult # NoResult /\ ret = nextResult

\* directoryListing assembled a Listing.
Assembled == listing # NoListing

\* C1: the Listing's NumDirs is the number of entries that are directories and
\* NumFiles the number that are not, so their sum is the entry count; this
\* holds in every state from assembly on, so also after the limit step.
C1_CountsMatchEntries ==
    Assembled =>
        /\ listing.NumDirs = Cardinality({ i \in DOMAIN files : files[i].IsDir })
        /\ listing.NumFiles = Cardinality({ i \in DOMAIN files : ~files[i].IsDir })
        /\ listing.NumDirs + listing.NumFiles = Len(files)

\* A served listing of one directory and one file, truncated to one item.
C1_Witness ==
    /\ pc = "Done"
    /\ ret.status = 200
    /\ Assembled
    /\ Len(files) = 2
    /\ Len(listing.Items) = 1
    /\ listing.NumDirs = 1
    /\ listing.NumFiles = 1

\* C2: the limit step, for a limit L >= 0 on the n sorted items: with
\* 0 < L <= n the items become the first L and ItemsLimitedTo = L, otherwise
\* both stay as they were (ItemsLimitedTo 0); and from then on ItemsLimitedTo
\* is 0 or the number of items.
C2_LimitStep ==
    /\ [][pc = "Limit" =>
            /\ limit >= 0
            /\ listing.ItemsLimitedTo = 0
            /\ IF 0 < limit /\ limit <= Len(listing.Items)
               THEN /\ listing'.Items = [i \in 1..limit |-> listing.Items[i]]
                    /\ listing'.ItemsLimitedTo = limit
               ELSE /\ listing'.Items = listing.Items
                    /\ listing'.ItemsLimitedTo = 0]_vars
    /\ []((pc = "Format" \/ (pc = "Done" /\ calls.format # "")) =>
            listing.ItemsLimitedTo \in {0, Len(listing.Items)})

\* A served listing whose limit equals its number of items.
C2_Witness ==
    /\ pc = "Done"
    /\ ret.status = 200
    /\ limit = 2
    /\ Len(files) = 2
    /\ listing.ItemsLimitedTo = 2

\* The Configs whose scope matches the request path and no earlier one does.
LowestMatch ==
    { i \in 1..Len(f.Configs) :
        /\ Matches(r.Path, f.Configs[i].PathScope)
        /\ \A j \in 1..(i - 1) : ~Matches(r.Path, f.Configs[j].PathScope) }

\* C3: once the scan is over, the Config in use is the one of lowest index whose
\* scope matches: its Root is the only one opened, its Variables and Template
\* the ones the listing and the HTML body carry; with no match the request is
\* deferred, nothing is opened and ServeHTTP returns what Next returned.
C3_FirstMatchWins ==
    pc # "ServeHTTP" =>
        IF LowestMatch = {}
        THEN /\ bc = 0
             /\ pc \in {"InNext", "Done"}
             /\ calls.next = 1
             /\ calls.open = <<>>
             /\ file = "none"
             /\ w = NoResponse
             /\ pc = "Done" => ReturnedNextResult
        ELSE /\ bc \in LowestMatch
             /\ calls.open = IF pc = "Open" THEN <<>> ELSE <<f.Configs[bc].Root>>
             /\ calls.params > 0 =>
                    /\ listing.User = f.Configs[bc].Variables
                    /\ listing.Context.Root = f.Configs[bc].Root
             /\ w.Body.kind = "html" => w.Body.template = f.Configs[bc].Template

\* An HTML listing served for a path that two Configs match.
C3_Witness ==
    /\ pc = "Done"
    /\ Cardinality({ i \in 1..Len(f.Configs) : Matches(r.Path, f.Configs[i].PathScope) }) = 2
    /\ w.Body.kind = "html"

\* C4: for a target that opened and statted as a directory, past the method
\* switch: only GET and HEAD lead to listing work; PROPFIND and OPTIONS end
\* with 501 without calling Next; every other method is deferred and the
\* directory is not enumerated.
C4_MethodSwitch ==
    info = "dir" /\ pc # "Method" =>
        /\ (calls.readdir > 0 \/ Assembled \/ w.Body # NoBuf) => r.Method \in {"GET", "HEAD"}
        /\ r.Method \in {"PROPFIND", "OPTIONS"} =>
              /\ pc = "Done"
              /\ ret = [status |-> 501, err |-> Nil]
              /\ calls.next = 0
        /\ r.Method \notin {"GET", "HEAD", "PROPFIND", "OPTIONS"} =>
              /\ pc \in {"InNext", "Done"}
              /\ calls.next = 1
              /\ calls.readdir = 0
              /\ pc = "Done" => ReturnedNextResult

\* An OPTIONS request to a directory, answered 501.
C4_Witness ==
    /\ pc = "Done"
    /\ info = "dir"
    /\ r.Method = "OPTIONS"
    /\ ret.status = 501

\* The request path has no trailing '/' and the target is an in-scope
\* directory: a Config matched, Open and Stat succeeded, Stat said directory.
SlashlessDirectory == info = "dir" /\ r.Path[Len(r.Path)] # "/"

\* No listing work has been done: nothing enumerated, no parameter read or
\* recorded, nothing formatted, no body.
NoListingWork ==
    /\ calls.readdir = 0
    /\ calls.params = 0
    /\ prefs = <<>>
    /\ calls.format = ""
    /\ w.Body = NoBuf
    /\ ~Assembled

\* C5 as stated: every request without a trailing '/' to an in-scope
\* directory ends in a 307 redirect to the path with '/' appended.
C5_AnyMethodRedirects ==
    (pc = "Done" /\ SlashlessDirectory) =>
        /\ w.Code = 307
        /\ w.Location = r.Path \o <<"/">>

\* C5, amended: a GET or HEAD request without a trailing '/' to an in-scope
\* directory ends in a 307 redirect to the path with '/' appended, returning
\* (0, nil) without calling Next; and no request without a trailing '/' to an
\* in-scope directory, whatever its method, gets any listing work done.
C5_GetHeadRedirects ==
    SlashlessDirectory =>
        /\ NoListingWork
        /\ (pc = "Done" /\ r.Method \in {"GET", "HEAD"}) =>
              /\ w.Code = 307
              /\ w.Location = r.Path \o <<"/">>
              /\ ret = [status |-> 0, err |-> Nil]
              /\ calls.next = 0

\* A HEAD request to a directory without the trailing '/', redirected.
C5_Witness ==
    /\ pc = "Done"
    /\ SlashlessDirectory
    /\ r.Method = "HEAD"
    /\ w.Code = 307

\* The entries Readdir returned whose name is an index file name.
IndexEntries == { i \in DOMAIN files : files[i].Name \in IndexPages }

\* C6 as stated: a request that reached ServeListing is deferred exactly when
\* IgnoreIndexes is false and some entry has an index file name.
C6_DeferredIffIndex ==
    (pc = "Done" /\ calls.readdir > 0) =>
        (Deferred <=> (~f.IgnoreIndexes /\ IndexEntries # {}))

\* C6, amended: a request that reached ServeListing and whose Readdir
\* succeeded is, past the index test, deferred exactly when IgnoreIndexes is
\* false and some entry has an index file name; when deferred, no parameter
\* was read or recorded, nothing formatted and nothing written, and
\* ServeHTTP returns what Next returned; with IgnoreIndexes true it is not
\* deferred.
C6_DeferredIffIndexAfterReaddir ==
    (calls.readdir > 0 /\ fsErr.op # "readdir" /\ pc # "IndexCheck") =>
        /\ Deferred <=> (~f.IgnoreIndexes /\ IndexEntries # {})
        /\ Deferred =>
              /\ calls.next = 1
              /\ calls.params = 0
              /\ prefs = <<>>
              /\ calls.format = ""
              /\ w = NoResponse
              /\ pc = "Done" => ReturnedNextResult

\* A directory with two index files, deferred.
C6_Witness ==
    /\ pc = "Done"
    /\ Cardinality(IndexEntries) = 2
    /\ ~f.IgnoreIndexes
    /\ Deferred
    /\ calls.readdir = 1

\* C7: a target that opened and statted but is not a directory is deferred
\* whatever the method and the path: Next is called once, ServeHTTP returns
\* its result, and there is no 501, no redirect, no enumeration, no listing.
C7_NotDirectoryDeferred ==
    info = "file" =>
        /\ pc \in {"InNext", "Done"}
        /\ calls.next = 1
        /\ calls.readdir = 0
        /\ ~Assembled
        /\ w = NoResponse
        /\ pc = "Done" => (ReturnedNextResult /\ ret.status # 501)

\* A PROPFIND request, path without trailing '/', to a file: deferred.
C7_Witness ==
    /\ pc = "Done"
    /\ info = "file"
    /\ r.Method = "PROPFIND"
    /\ r.Path[Len(r.Path)] # "/"
    /\ Deferred

\* C8: when Open or Stat fails, a permission error ends with 403, an
\* 'exists' error with 404 after Open and 410 after Stat, both returning the
\* error without calling Next; any other error defers; no listing work is done.
C8_OpenStatFailures ==
    fsErr.op \in {"open", "stat"} =>
        /\ NoListingWork
        /\ w = NoResponse
        /\ file = IF fsErr.op = "open" THEN "none" ELSE IF pc = "Done" THEN "closed" ELSE "open"
        /\ IF fsErr.err \in {ErrPermission, ErrExist}
           THEN /\ pc = "Done"
                /\ calls.next = 0
                /\ ret.err = fsErr.err
                /\ ret.status = IF fsErr.err = ErrPermission THEN 403
                                ELSE IF fsErr.op = "open" THEN 404 ELSE 410
           ELSE /\ pc \in {"InNext", "Done"}
                /\ calls.next = 1
                /\ pc = "Done" => ReturnedNextResult

\* Stat failed with an 'exists' error: 410.
C8_Witness ==
    /\ pc = "Done"
    /\ fsErr = [op |-> "stat", err |-> ErrExist]
    /\ ret.status = 410

\* The request's sort, order or limit parameter is not valid: a sort other
\* than name, size, time, an order other than asc, desc, or a limit that is
\* not a string of decimal digits.
BadQuery ==
    \/ r.Sort \notin {"", "name", "size", "time"}
    \/ r.Order \notin {"", "asc", "desc"}
    \/ \E i \in 1..Len(r.Limit) : r.Limit[i] \notin {"0", "1", "2", "3", "4", "5", "6", "7", "8", "9"}

\* C9 as stated: every GET/HEAD request to an in-scope directory, path ending
\* in '/', with an invalid parameter ends with 400, without a body and
\* without having been deferred.
C9_BadQueryAlways400 ==
    (/\ pc = "Done"
     /\ info = "dir"
     /\ r.Method \in {"GET", "HEAD"}
     /\ r.Path[Len(r.Path)] = "/"
     /\ BadQuery) =>
        /\ ret.status = 400
        /\ w.Body = NoBuf
        /\ ~Deferred

\* C9, amended: a GET/HEAD request to an in-scope directory, path ending in
\* '/', whose Readdir succeeded and which is not deferred for an index file,
\* and which has an invalid parameter, ends at the validation with 400 and
\* the validation error: it is not deferred, nothing is recorded, formatted
\* or written, and no sort or order is applied to the listing.
C9_BadQuery400 ==
    (/\ BadQuery
     /\ Assembled
     /\ f.IgnoreIndexes \/ IndexEntries = {}
     /\ pc \notin {"IndexCheck", "SortOrder"}) =>
        /\ pc = "Done"
        /\ ret.status = 400
        /\ ret.err # Nil
        /\ ~Deferred
        /\ calls.params = 1
        /\ prefs = <<>>
        /\ calls.format = ""
        /\ w = NoResponse
        /\ listing.Sort = ""
        /\ listing.Order = ""
        /\ listing.ItemsLimitedTo = 0

\* sort=bogus on a non-empty directory: 400.
C9_Witness ==
    /\ pc = "Done"
    /\ r.Sort = "bogus"
    /\ Assembled
    /\ Len(files) > 0
    /\ ret.status = 400

\* The Accept values joined by commas.
JoinedAccept == Join(acceptHeader, <<",">>)

\* "application/json" occurs in the joined Accept values, letter case aside.
AcceptsJSON ==
    \E k \in 0..(Len(JoinedAccept) - Len(ApplicationJSON)) :
        \A i \in 1..Len(ApplicationJSON) :
            LET c == JoinedAccept[k + i]
            IN (IF c \in DOMAIN LowerOf THEN LowerOf[c] ELSE c) = ApplicationJSON[i]

\* C10: the formatter ServeListing calls is the JSON one exactly when the
\* Accept values contain "application/json"; a body written is then the
\* marshalled Items and nothing else, with Content-Type application/json,
\* and else the matched Config's template executed on the whole Listing,
\* with Content-Type text/html.
C10_ContentNegotiation ==
    calls.format # "" =>
        /\ calls.format = IF AcceptsJSON THEN "json" ELSE "html"
        /\ ret.status \in {200, 500}
        /\ ret.status = 500 => w = NoResponse
        /\ ret.status = 200 =>
              IF AcceptsJSON
              THEN /\ w.ContentType = "application/json; charset=utf-8"
                   /\ DOMAIN w.Body = {"kind", "json"}
                   /\ w.Body.kind = "json"
                   /\ w.Body.json.null = (listing.Items = <<>>)
                   /\ Len(w.Body.json.elems) = Len(listing.Items)
                   /\ \A i \in 1..Len(listing.Items) :
                        /\ DOMAIN w.Body.json.elems[i]
                             = {"IsDir", "Name", "Size", "URL", "ModTime", "Mode"}
                        /\ w.Body.json.elems[i].Name = listing.Items[i].Name
                        /\ w.Body.json.elems[i].URL = listing.Items[i].URL
                        /\ w.Body.json.elems[i].IsDir = listing.Items[i].IsDir
                        /\ w.Body.json.elems[i].Size = listing.Items[i].Size
              ELSE /\ w.ContentType = "text/html; charset=utf-8"
                   /\ w.Body = [kind |-> "html", template |-> f.Configs[bc].Template,
                                data |-> listing]

\* A JSON body served for "Application/JSON".
C10_Witness ==
    /\ pc = "Done"
    /\ ret.status = 200
    /\ Len(acceptHeader) = 1
    /\ acceptHeader[1][1] = "A"
    /\ w.Body.kind = "json"
    /\ Len(listing.Items) > 0

\* ---------------------------------------------------------------------------
\* C11: a listing served as JSON has a JSON array as its body, for every
\* directory and so for one with no entries too, with one element for each
\* item of the listing as sorted and limited, in the listing's order.
C11_JSONBodyIsArray ==
    (pc = "Done" /\ ret.status = 200 /\ w.Body.kind = "json") =>
        /\ ~w.Body.json.null
        /\ Len(w.Body.json.elems) = Len(listing.Items)
        /\ \A i \in 1..Len(listing.Items) :
             w.Body.json.elems[i].Name = listing.Items[i].Name

\* ---------------------------------------------------------------------------
\* C12: once a formatter has been called, ServeListing returns 500 with the
\* error and has set no Content-Type and written no body when formatting
\* failed, and returns 200 with no error only with the Content-Type set and
\* the whole formatted buffer written; a 200 of this handler's own is never
\* returned without a formatter's buffer in the body.
C12_RenderFailure ==
    /\ (pc = "Done" /\ calls.format # "") =>
          /\ ret.status \in {200, 500}
          /\ ret.status = 500 =>
                /\ ret.err # Nil
                /\ w.ContentType = ""
                /\ w.Body = NoBuf
                /\ w.Code = 0
          /\ ret.status = 200 =>
                /\ ret.err = Nil
                /\ w.ContentType # ""
                /\ w.Body = formatFor(acceptHeader, listing, f.Configs[bc])
    /\ (pc = "Done" /\ ~Deferred /\ ret.status = 200) =>
          /\ calls.format # ""
          /\ w.Body # NoBuf
          /\ w.Body.kind = calls.format
    /\ pc # "Done" => (w.Body = NoBuf /\ w.ContentType = "")

\* json.Marshal failed on a listing with items.
C12_Witness ==
    /\ pc = "Done"
    /\ calls.format = "json"
    /\ ret.status = 500
    /\ Len(listing.Items) > 0

\* ---------------------------------------------------------------------------
\* C13: Readdir is called at most once for a request, and when it fails the
\* request ends at once with the error and 403 for a permission error, 410
\* for an 'already exists' error and 500 for any other: Next is not invoked,
\* no listing is assembled from the entries read so far, nothing is written
\* and the status is not 200.
C13_ReaddirFailure ==
    /\ calls.readdir <= 1
    /\ fsErr.op = "readdir" =>
          /\ pc = "Done"
          /\ calls.readdir = 1
          /\ ret.err = fsErr.err
          /\ fsErr.err = ErrPermission => ret.status = 403
          /\ fsErr.err = ErrExist => ret.status = 410
          /\ fsErr.err \notin {ErrPermission, ErrExist} => ret.status = 500
          /\ ret.status # 200
          /\ calls.next = 0
          /\ listing = NoListing
          /\ calls.format = ""
          /\ w = NoResponse

\* Readdir failed with an error of neither kind after it had read an entry.
C13_Witness ==
    /\ fsErr = [op |-> "readdir", err |-> ErrOther]
    /\ files # <<>>
    /\ ret.status = 500

\* ---------------------------------------------------------------------------
\* The parent of a request path: the path without one trailing '/', up to its
\* last '/' (the root for a path directly below the root).
ParentOfPath(p) ==
    LET t == IF Len(p) > 0 /\ p[Len(p)] = "/" THEN SubSeq(p, 1, Len(p) - 1) ELSE p
        cut == {i \in 1..Len(t) : t[i] = "/" /\ \A j \in (i + 1)..Len(t) : t[j] # "/"}
    IN IF cut = {} THEN <<".">>
       ELSE IF cut = {1} THEN <<"/">>
       ELSE SubSeq(t, 1, (CHOOSE i \in cut : TRUE) - 1)

\* Some Config of the list, matched by the request or not, has a PathScope
\* that is a string prefix of p.
SomeScopeIsPrefixOf(p) ==
    \E i \in 1..Len(f.Configs) :
        /\ Len(f.Configs[i].PathScope) <= Len(p)
        /\ \A k \in 1..Len(f.Configs[i].PathScope) : f.Configs[i].PathScope[k] = p[k]

\* C14: CanGoUp of an assembled listing is true exactly when the PathScope of
\* some Config, any of the list, is a string prefix of the request path's
\* parent, the parent taken after one trailing '/' is stripped.
C14_CanGoUpIffScopePrefixOfParent ==
    Assembled => (listing.CanGoUp <=> SomeScopeIsPrefixOf(ParentOfPath(r.Path)))

\* CanGoUp is true by a Config that is not the one the request matched.
C14_Witness ==
    /\ Assembled
    /\ listing.CanGoUp
    /\ ~HasPrefix(ParentOfPath(r.Path), f.Configs[bc].PathScope)

\* ------------------------------------------------------------ BreadcrumbMap

\* The longest Path BreadcrumbMap is called on.
MaxPathLen == 7

\* strings.Split(s, sep) for a separator of one character.
RECURSIVE Split(_, _)
Split(s, sep) ==
    IF \A i \in 1..Len(s) : s[i] # sep
    THEN <<s>>
    ELSE LET i == CHOOSE k \in 1..Len(s) : s[k] = sep /\ \A j \in 1..(k - 1) : s[j] # sep
         IN <<SubSeq(s, 1, i - 1)>> \o Split(SubSeq(s, i + 1, Len(s)), sep)

\* result[key] = value on a map[string]string.
MapPut(result, key, value) ==
    [k \in (DOMAIN result) \cup {key} |-> IF k = key THEN value ELSE result[k]]

\* skipTrailingSlash with the slash kept.
skipTrailingSlash_never(lpath) == lpath

\* "skip trailing slash": lpath without its last character when that is '/'.
skipTrailingSlash(lpath) ==
    IF lpath[Len(lpath)] = "/" THEN SubSeq(lpath, 1, Len(lpath) - 1) ELSE lpath

\* The body of the loop over parts, for the part of index i (from 1).
breadcrumbPart(result, parts, i) ==
    IF i = 1 /\ parts[i] = <<>>
    THEN MapPut(result, <<"/">>, <<"/">>)
    ELSE MapPut(result, Join(SubSeq(parts, 1, i), <<"/">>), parts[i])

\* for i, part := range parts, from index i on.
RECURSIVE breadcrumbParts(_, _, _)
breadcrumbParts(result, parts, i) ==
    IF i > Len(parts) THEN result
    ELSE breadcrumbParts(breadcrumbPart(result, parts, i), parts, i + 1)

\* Listing.BreadcrumbMap: the map from each cumulative path to its last part.
BreadcrumbMap(l) ==
    IF Len(l.Path) = 0
    THEN <<>>
    ELSE breadcrumbParts(<<>>, Split(skipTrailingSlash(l.Path), "/"), 1)

\* The characters of the Paths BreadcrumbMap is called on.
PathChars == {"/", "a", "b", "c"}

\* Listing.Path: any string, for BreadcrumbMap is a method of an exported type.
ListingPaths == UNION { [1..n -> PathChars] : n \in 0..MaxPathLen }

\* No request is being handled: a method of Listing is called on its own.
Standalone ==
    /\ f = [Configs |-> <<ScopeRoot>>, IgnoreIndexes |-> FALSE]
    /\ r = [Method |-> "GET", Path |-> <<"/">>, Sort |-> "", Order |-> "", Limit |-> <<>>]
    /\ bc = 0
    /\ file = "none"
    /\ info = "nil"
    /\ calls = NoCalls
    /\ containsIndex = FALSE
    /\ limit = 0
    /\ fsErr = NoErr
    /\ acceptHeader = <<>>
    /\ w = NoResponse
    /\ nextResult = NoResult
    /\ prefs = <<>>
    /\ ret = NoResult

\* A Listing with any Path, before BreadcrumbMap is called on it.
InitBreadcrumbMap ==
    /\ Standalone
    /\ files = <<>>
    /\ \E p \in ListingPaths : listing = directoryListing(<<>>, FALSE, p).listing
    /\ breadcrumbs = NoBreadcrumbs
    /\ pc = "BreadcrumbMap"

\* l.BreadcrumbMap() is called and returns.
CallBreadcrumbMap ==
    /\ pc = "BreadcrumbMap"
    /\ breadcrumbs' = BreadcrumbMap(listing)
    /\ pc' = "BreadcrumbMapReturned"
    /\ UNCHANGED <<f, r, bc, file, info, calls, files, listing, containsIndex, limit, fsErr,
                   acceptHeader, w, nextResult, prefs, ret>>

NextBreadcrumbMap == CallBreadcrumbMap

SpecBreadcrumbMap == InitBreadcrumbMap /\ [][NextBreadcrumbMap]_vars

\* ---------------------------------------------------------------------------
\* A Path made of '/' followed by non-empty segments separated by '/', with
\* or without one trailing '/'.
RootedPath(p) ==
    /\ Len(p) > 0
    /\ p[1] = "/"
    /\ \A i \in 1..(Len(p) - 1) : ~(p[i] = "/" /\ p[i + 1] = "/")

\* The ends of the segments of a rooted path p: the positions of p that hold
\* the last character of a segment.
SegmentEnds(p) ==
    {k \in 2..Len(p) : p[k] # "/" /\ (k = Len(p) \/ p[k + 1] = "/")}

\* The segment of p that ends at position k.
SegmentEndingAt(p, k) ==
    LET start == CHOOSE j \in 1..k : p[j] = "/" /\ \A m \in (j + 1)..k : p[m] # "/"
    IN SubSeq(p, start + 1, k)

\* C15: BreadcrumbMap returns the empty map for the empty Path; for a Path of
\* '/' and n non-empty segments, with or without one trailing '/', it returns
\* exactly n+1 entries, '/' -> '/' and each cumulative prefix '/s1/.../si'
\* -> si, and no key but the root key ends in '/'.
C15_BreadcrumbEntries ==
    pc = "BreadcrumbMapReturned" =>
        /\ listing.Path = <<>> => DOMAIN breadcrumbs = {}
        /\ RootedPath(listing.Path) =>
              /\ DOMAIN breadcrumbs
                   = {<<"/">>} \cup {SubSeq(listing.Path, 1, k) : k \in SegmentEnds(listing.Path)}
              /\ breadcrumbs[<<"/">>] = <<"/">>
              /\ \A k \in SegmentEnds(listing.Path) :
                    breadcrumbs[SubSeq(listing.Path, 1, k)] = SegmentEndingAt(listing.Path, k)
              /\ Cardinality(DOMAIN breadcrumbs) = Cardinality(SegmentEnds(listing.Path)) + 1
              /\ \A key \in DOMAIN breadcrumbs : key[Len(key)] = "/" => key = <<"/">>

\* The breadcrumbs of "/a/b/c/".
C15_Witness ==
    /\ pc = "BreadcrumbMapReturned"
    /\ listing.Path = <<"/", "a", "/", "b", "/", "c", "/">>
    /\ DOMAIN breadcrumbs = { <<"/">>, <<"/", "a">>, <<"/", "a", "/", "b">>,
                              <<"/", "a", "/", "b", "/", "c">> }
    /\ breadcrumbs[<<"/", "a", "/", "b">>] = <<"b">>

\* ---------------------------------------------------------------------------
\* C16: for every non-empty Path the map BreadcrumbMap returns has the root
\* entry '/' -> '/'.
C16_RootEntry ==
    (pc = "BreadcrumbMapReturned" /\ listing.Path # <<>>) =>
        /\ <<"/">> \in DOMAIN breadcrumbs
        /\ breadcrumbs[<<"/">>] = <<"/">>

\* ----------------------------------------------------------------- the sort

\* The most entries of a directory whose listing is sorted.
MaxSortItems == 3

\* The entries of the sorted directories: DirEntries and a file "b", whose
\* name equals the directory "B" except for case and whose size is B's.
SortEntries ==
    DirEntries \cup
    { [Name |-> <<"b">>, IsDir |-> FALSE, Size |-> 4,
       ModTime |-> [sec |-> 1, loc |-> "Local"], Mode |-> "-rw-r--r--"] }

\* What Readdir returned for the sorted directories.
SortDirectories ==
    { fs \in UNION { [1..n -> SortEntries] : n \in 0..MaxSortItems } :
        \A i, j \in DOMAIN fs : i # j => fs[i].Name # fs[j].Name }

\* The listing as assembled from files, with the Sort and Order that
\* handleSortOrder returned copied into it.
assembledFor(fs, sort, order) ==
    [directoryListing(fs, FALSE, <<"/", "a", "/">>).listing EXCEPT !.Sort = sort, !.Order = order]

\* The other of the two orders.
otherOrder(order) == IF order = "desc" THEN "asc" ELSE "desc"

\* An assembled listing with its Sort and Order, before listing.applySort().
InitSort ==
    /\ Standalone
    /\ \E fs \in SortDirectories, sort \in {"name", "size", "time"}, order \in {"asc", "desc"} :
         /\ files = fs
         /\ listing = assembledFor(fs, sort, order)
    /\ breadcrumbs = NoBreadcrumbs
    /\ pc = "applySort"

\* listing.applySort()
ApplySort ==
    /\ pc = "applySort"
    /\ listing' = applySort(listing)
    /\ pc' = "sorted"
    /\ UNCHANGED <<f, r, bc, file, info, calls, files, containsIndex, limit, fsErr,
                   acceptHeader, w, nextResult, prefs, ret, breadcrumbs>>

\* listing.applySort() on the listing that is sorted already.
ApplySortAgain ==
    /\ pc = "sorted"
    /\ listing' = applySort(listing)
    /\ pc' = "sortedAgain"
    /\ UNCHANGED <<f, r, bc, file, info, calls, files, containsIndex, limit, fsErr,
                   acceptHeader, w, nextResult, prefs, ret, breadcrumbs>>

\* The same directory assembled anew and sorted on the same key in the other
\* order.
ApplySortReversed ==
    /\ pc = "sorted"
    /\ listing' = applySort(assembledFor(files, listing.Sort, otherOrder(listing.Order)))
    /\ pc' = "reversed"
    /\ UNCHANGED <<f, r, bc, file, info, calls, files, containsIndex, limit, fsErr,
                   acceptHeader, w, nextResult, prefs, ret, breadcrumbs>>

NextSort ==
    \/ ApplySort
    \/ ApplySortAgain
    \/ ApplySortReversed

SpecSort == InitSort /\ [][NextSort]_vars

\* ---------------------------------------------------------------------------
\* The position at assembly of the item named name.
AssemblyIndex(name) == CHOOSE i \in 1..Len(files) : files[i].Name = name

\* Items a and b have the same key.
SameKey(a, b, sort) ==
    CASE sort = "name" -> ToLower(a.Name) = ToLower(b.Name)
      [] sort = "size" -> a.Size = b.Size
      [] OTHER -> a.ModTime.sec = b.ModTime.sec

\* Item a's key is before item b's in ascending order.
KeyBefore(a, b, sort) ==
    CASE sort = "name" -> StringLess(ToLower(a.Name), ToLower(b.Name))
      [] sort = "size" -> a.Size < b.Size
      [] OTHER -> a.ModTime.sec < b.ModTime.sec

\* items holds the assembled items, each once, ordered on the key alone in the
\* given order, the items of equal keys as they were assembled.
StablySorted(items, sort, order) ==
    /\ Len(items) = Len(files)
    /\ {items[i] : i \in 1..Len(items)} = {fileInfoOf(files[i]) : i \in 1..Len(files)}
    /\ \A i, j \in 1..Len(items) :
         i < j =>
            IF SameKey(items[i], items[j], sort)
            THEN AssemblyIndex(items[i].Name) < AssemblyIndex(items[j].Name)
            ELSE IF order = "desc"
                 THEN KeyBefore(items[j], items[i], sort)
                 ELSE KeyBefore(items[i], items[j], sort)

\* No two of the items have the same key.
NoTies(items, sort) ==
    \A i, j \in 1..Len(items) : i # j => ~SameKey(items[i], items[j], sort)

\* items in reverse.
Reversed(items) == [i \in 1..Len(items) |-> items[Len(items) + 1 - i]]

\* C17: the sort is a stable sort on the chosen key alone (the lower-cased
\* name, the size, the time; directories not ahead of files): the items of
\* equal keys keep their assembly order in both orders, sorting the sorted
\* items again changes nothing, and without equal keys the items in one
\* order are the exact reverse of the items in the other order.
C17_StableSort ==
    /\ [](pc \in {"sorted", "sortedAgain", "reversed"} =>
            StablySorted(listing.Items, listing.Sort, listing.Order))
    /\ [][(pc = "sorted" /\ pc' = "sortedAgain") => listing'.Items = listing.Items]_vars
    /\ [][(pc = "sorted" /\ pc' = "reversed" /\ NoTies(listing.Items, listing.Sort)) =>
            /\ listing'.Order = otherOrder(listing.Order)
            /\ listing'.Items = Reversed(listing.Items)]_vars

\* Three items sorted descending on the name, "b" and "B" with equal keys
\* after the third, in their assembly order.
C17_Witness ==
    /\ pc = "sorted"
    /\ listing.Sort = "name"
    /\ listing.Order = "desc"
    /\ Len(listing.Items) = 3
    /\ listing.Items[1].Name = <<"i", "n", "d", "e", "x", ".", "h", "t", "m">>
    /\ listing.Items[2].Name = <<"b">>
    /\ listing.Items[3].Name = <<"B">>
    /\ files[1].Name = <<"b">>

\* ---------------------------------------------------------------------------
\* Root.Open was called and succeeded.
Opened == calls.open # <<>> /\ fsErr.op # "open"

\* C18: when Root.Open succeeded the file is closed exactly once, when
\* ServeHTTP returns and not before, whichever way the request ends; so while
\* the Next handler runs for a request deferred after the open, the file is
\* still open. When Open failed or was not called, nothing is closed.
C18_ClosedExactlyOnce ==
    /\ calls.close <= 1
    /\ (Opened /\ pc = "Done") => (file = "closed" /\ calls.close = 1)
    /\ (Opened /\ pc # "Done") => (file = "open" /\ calls.close = 0)
    /\ (Opened /\ pc = "InNext") => (file = "open" /\ ret = NoResult)
    /\ ~Opened => (file = "none" /\ calls.close = 0)

\* A request deferred after a successful open has returned: the file is
\* closed, once.
C18_Witness ==
    /\ pc = "Done"
    /\ Deferred
    /\ Opened
    /\ file = "closed"
    /\ calls.close = 1

\* ---------------------------------------------------------------------------
\* The terminal outcomes that hold of a request that has ended.
Outcomes ==
    (IF Deferred THEN {"deferred"} ELSE {})
    \cup (IF ~Deferred /\ ret.status = 0 /\ w.Code = 307 THEN {"redirect"} ELSE {})
    \cup {code \in {"403", "404", "410", "501", "400", "500", "200"} :
            /\ ~Deferred
            /\ w.Code = 0
            /\ ret.status = (CASE code = "403" -> 403 [] code = "404" -> 404
                               [] code = "410" -> 410 [] code = "501" -> 501
                               [] code = "400" -> 400 [] code = "500" -> 500
                               [] OTHER -> 200)}

\* Before ServeHTTP has returned, some step of it can be taken: with no loop in
\* the handler, every request whose collaborators return ends.
NeverStuck == pc # "Done" => ENABLED Next

\* C19: a request ends with exactly one outcome among deferred, 403, 404,
\* 410, 501, redirect, 400, 500 and 200, and has returned nothing before;
\* the Next handler is invoked at most once, and when it is, what it returned
\* is what ServeHTTP returns, status and error, and this handler has written
\* nothing: no redirect, no Content-Type, no body.
C19_OneOutcome ==
    /\ calls.next <= 1
    /\ pc # "Done" => ret = NoResult
    /\ pc = "Done" => Cardinality(Outcomes) = 1
    /\ Deferred =>
          /\ w = NoResponse
          /\ calls.format = ""
          /\ pc \in {"InNext", "Done"}
          /\ pc = "Done" => (nextResult \in NextResults /\ ret = nextResult)

\* The Next handler's 404 and error, returned for a request deferred because
\* of its method.
C19_Witness ==
    /\ pc = "Done"
    /\ Deferred
    /\ r.Method = "POST"
    /\ Opened
    /\ ret = [status |-> 404, err |-> "next: not found"]

\* ---------------------------------------------------------------------------
\* The URL of the parent directory of a request path: the parent path followed
\* by '/' (the root is its own URL).
ParentURL(p) ==
    IF ParentOfPath(p) = <<"/">> THEN <<"/">> ELSE ParentOfPath(p) \o <<"/">>

\* C20: CanGoUp tells whether the parent directory is browsable: for every
\* assembled listing it is true exactly when a request for the parent
\* directory's URL would be matched by some configured scope in ServeHTTP,
\* whether the PathScope is written with a trailing '/' or without.
C20_CanGoUpIffParentInScope ==
    Assembled => (listing.CanGoUp <=> matchConfig(f.Configs, ParentURL(r.Path)) # 0)

====
